---- MODULE Spec2Model ----
(***************************************************************************)
(* Model of todo.c: a command-line to-do list manager.  The linked list    *)
(* rooted at `head` is a sequence of tasks; strings are sequences of       *)
(* one-character strings; stdin, the file tasks.txt and the position of    *)
(* main in its loop are state.                                             *)
(***************************************************************************)
EXTENDS Integers, Sequences, FiniteSets, TLC

VARIABLES pc, head, file, rd, stdin, last

vars == <<pc, head, file, rd, stdin, last>>

\* #define MAX_TASK_LEN 256
MAX_TASK_LEN == 256

\* Cap on the number of tasks the user adds from the menu.
MaxTasks == 2

\* ------------------------------------------------------------------ strings

Rep(c, n) == [i \in 1..n |-> c]

Min(a, b) == IF a < b THEN a ELSE b

Take(s, n) == SubSeq(s, 1, Min(n, Len(s)))

Drop(s, n) == SubSeq(s, Min(n, Len(s)) + 1, Len(s))

\* strcspn(s, "\n"): the number of characters before the first newline.
strcspn(s) ==
    LET nl == {i \in 1..Len(s) : s[i] = "\n"}
    IN  IF nl = {} THEN Len(s) ELSE (CHOOSE i \in nl : \A j \in nl : i <= j) - 1

\* fgets(buf, size, stream): at most size - 1 characters, stopping after a
\* newline; NULL (ok = FALSE) at end of input.
fgets(size, stream) ==
    LET nl == strcspn(stream)
        n  == IF nl < Len(stream) THEN Min(nl + 1, size - 1)
                                  ELSE Min(Len(stream), size - 1)
    IN  [ok |-> stream # <<>>, chunk |-> Take(stream, n), rest |-> Drop(stream, n)]

isspace(c) == c \in {" ", "\n", "\t", "\r"}

isdigit(c) == c \in {"0", "1", "2", "3", "4", "5", "6", "7", "8", "9"}

digitValue ==
    "0" :> 0 @@ "1" :> 1 @@ "2" :> 2 @@ "3" :> 3 @@ "4" :> 4 @@
    "5" :> 5 @@ "6" :> 6 @@ "7" :> 7 @@ "8" :> 8 @@ "9" :> 9

RECURSIVE skipSpace(_)
skipSpace(s) ==
    IF s # <<>> /\ isspace(Head(s)) THEN skipSpace(Tail(s)) ELSE s

RECURSIVE digitRun(_)
digitRun(s) ==
    IF s # <<>> /\ isdigit(Head(s)) THEN 1 + digitRun(Tail(s)) ELSE 0

RECURSIVE digitsValue(_, _)
digitsValue(s, acc) ==
    IF s = <<>> THEN acc ELSE digitsValue(Tail(s), 10 * acc + digitValue[Head(s)])

\* The %d conversion: skips white space, takes an optional sign and at least
\* one digit.  eof: the input ended before anything was converted.
scanInt(s) ==
    LET t      == skipSpace(s)
        signed == t # <<>> /\ Head(t) \in {"-", "+"}
        u      == IF signed THEN Tail(t) ELSE t
        k      == digitRun(u)
        v      == digitsValue(Take(u, k), 0)
    IN  [ok   |-> k > 0,
         eof  |-> t = <<>>,
         val  |-> IF signed /\ Head(t) = "-" THEN 0 - v ELSE v,
         rest |-> Drop(u, k)]

\* sscanf(buf, "%d", &n): the number of items assigned, -1 for EOF.
sscanfInt(buf) ==
    LET d == scanInt(buf)
    IN  [n |-> IF d.ok THEN 1 ELSE IF d.eof THEN 0 - 1 ELSE 0, val |-> d.val]

\* sscanf(lineBuffer, "%d,%[^\n]", &completed, description): %[^\n] takes
\* one or more characters up to a newline, with no field width, and fails on
\* none.  description is the text it stores, whatever its length.
sscanfLine(buf) ==
    LET d     == scanInt(buf)
        comma == d.ok /\ d.rest # <<>> /\ Head(d.rest) = ","
        text  == IF comma THEN Take(Tail(d.rest), strcspn(Tail(d.rest))) ELSE <<>>
    IN  [n           |-> IF ~d.ok THEN (IF d.eof THEN 0 - 1 ELSE 0)
                         ELSE IF comma /\ text # <<>> THEN 2 ELSE 1,
         completed   |-> d.val,
         description |-> text]

\* -------------------------------------------------------------------- list

\* createTask with strcpy in place of the bounded strncpy.
createTask_unbounded(description) ==
    [description |-> description, completed |-> 0]

\* createTask: strncpy of at most MAX_TASK_LEN - 1 characters, terminator
\* forced at MAX_TASK_LEN - 1, completed = 0.
createTask(description) ==
    [description |-> Take(description, MAX_TASK_LEN - 1), completed |-> 0]

\* addTask linking the new node in front of the list.
addTask_atHead(h, description) == <<createTask(description)>> \o h

\* addTask: the new node is linked after the last node (or becomes head).
addTask(h, description) == Append(h, createTask(description))

\* while (current != NULL && count < limit) { current = current->next; count++; }
\* over a list of n nodes: the value of count when the loop stops; current is
\* NULL exactly when that value exceeds n.
RECURSIVE walk(_, _, _)
walk(n, count, limit) ==
    IF count <= n /\ count < limit THEN walk(n, count + 1, limit) ELSE count

\* markComplete(head, index)
markComplete(h, index) ==
    LET at == walk(Len(h), 1, index)
    IN  IF at > Len(h)
        THEN [head |-> h, out |-> "NotFound"]
        ELSE [head |-> [h EXCEPT ![at].completed = 1], out |-> "Marked"]

RemoveAt(h, i) == SubSeq(h, 1, i - 1) \o SubSeq(h, i + 1, Len(h))

\* deleteTask without the test for an empty list: (*head)->next reads through
\* a null pointer when index is 1.
deleteTask_noEmptyTest(h, index) ==
    IF index = 1
    THEN IF h = <<>> THEN [head |-> h, out |-> "Segfault"]
                     ELSE [head |-> Tail(h), out |-> "Deleted"]
    ELSE LET at == walk(Len(h), 1, index - 1)
         IN  IF at > Len(h) \/ at + 1 > Len(h)
             THEN [head |-> h, out |-> "NotFound"]
             ELSE [head |-> RemoveAt(h, at + 1), out |-> "Deleted"]

\* deleteTask walking up to index instead of index - 1: it unlinks the node
\* after the one asked for.
deleteTask_walksToIndex(h, index) ==
    IF h = <<>> THEN [head |-> h, out |-> "Empty"]
    ELSE IF index = 1 THEN [head |-> Tail(h), out |-> "Deleted"]
    ELSE LET at == walk(Len(h), 1, index)
         IN  IF at > Len(h) \/ at + 1 > Len(h)
             THEN [head |-> h, out |-> "NotFound"]
             ELSE [head |-> RemoveAt(h, at + 1), out |-> "Deleted"]

\* deleteTask(&head, index).  The indices read here are small, so index - 1
\* does not overflow.
deleteTask(h, index) ==
    IF h = <<>> THEN [head |-> h, out |-> "Empty"]
    ELSE IF index = 1 THEN [head |-> Tail(h), out |-> "Deleted"]
    ELSE LET at == walk(Len(h), 1, index - 1)
         IN  IF at > Len(h) \/ at + 1 > Len(h)
             THEN [head |-> h, out |-> "NotFound"]
             ELSE [head |-> RemoveAt(h, at + 1), out |-> "Deleted"]

\* displayTasks(head): prints, changes nothing.
displayTasks(h) == IF h = <<>> THEN "Empty" ELSE "Rows"

\* freeList(head): every node is freed.
freeList(h) == <<>>

\* ------------------------------------------------------------- persistence

NoFile == [exists |-> FALSE, data |-> <<>>]

\* fprintf(file, "%d,%s\n", current->completed, current->description) for
\* every node, in list order.
RECURSIVE fileText(_)
fileText(h) ==
    IF h = <<>> THEN <<>>
    ELSE <<(IF Head(h).completed = 0 THEN "0" ELSE "1"), ",">>
         \o Head(h).description \o <<"\n">> \o fileText(Tail(h))

\* saveTasks(head): fopen(FILENAME, "w") may fail; nothing is written then.
saveTasks(h, f, canOpen) ==
    IF canOpen THEN [file |-> [exists |-> TRUE, data |-> fileText(h)], out |-> "Saved"]
               ELSE [file |-> f, out |-> "IOError"]

\* The loop of loadTasks run on a whole file with room for every description:
\* the tasks it builds from the chunks fgets delivers.
RECURSIVE loadedFrom(_, _)
loadedFrom(h, stream) ==
    LET in == fgets(MAX_TASK_LEN + 10, stream)
        r  == sscanfLine(in.chunk)
        t  == addTask(h, r.description)
    IN  IF ~in.ok THEN h
        ELSE IF r.n # 2 THEN loadedFrom(h, in.rest)
        ELSE IF r.completed # 0
             THEN loadedFrom([t EXCEPT ![Len(t)].completed = 1], in.rest)
             ELSE loadedFrom(t, in.rest)

\* ------------------------------------------------------------------ inputs

Str1(c) == <<c, "\n">>

digitChar(i) == <<"0", "1", "2", "3", "4", "5", "6", "7", "8", "9">>[i + 1]

IntLine(i) == IF i < 0 THEN <<"-", digitChar(0 - i), "\n">> ELSE Str1(digitChar(i))

\* What the user types at the menu prompt: the five choices, a number that is
\* no choice, and text that is no number.
ChoiceLines == {IntLine(i) : i \in 1..5} \cup {IntLine(9), Str1("x")}

\* What the user types at a "task number" prompt.
IndexLines == {IntLine(i) : i \in (0 - 1)..(MaxTasks + 1)} \cup {Str1("x")}

\* What the user types at the description prompt: nothing, a short text, a
\* text that fills taskDescription and leaves its newline unread, and a text
\* one character longer.
DescLines ==
    {<<"\n">>, Str1("a"),
     Rep("a", MAX_TASK_LEN - 1) \o <<"\n">>,
     Rep("a", MAX_TASK_LEN) \o <<"\n">>}

\* tasks.txt as the program may find it.
FileTexts ==
    { <<"0", ",", "a", "\n", "0", ",", "a", "\n">>,
      <<"x", "\n", "1", ",", "a", "\n", "0", ",", "a", "\n">>,
      <<" ", "0", ",", "a", "\n">>,
      <<"1", "2", ",", "a", "\n", "-", "1", ",", "a", "\n">>,
      <<"0", ",", "\n", "1", "\n">>,
      <<"0", ",">> \o Rep("a", MAX_TASK_LEN - 1) \o <<"\n">>,
      <<"0", ",", "a", "\n", "0", ",">> \o Rep("a", MAX_TASK_LEN) \o <<"\n">>,
      <<"1", ",">> \o Rep("a", MAX_TASK_LEN + 7) \o <<"1", ",", "a", "\n">> }

Files == {NoFile} \cup {[exists |-> TRUE, data |-> t] : t \in FileTexts}

NoOp == [op |-> "none", index |-> 0, desc |-> <<>>, out |-> "none"]

Did(op, index, desc, out) == [op |-> op, index |-> index, desc |-> desc, out |-> out]

\* -------------------------------------------------------------------- main

\* Task* head = NULL; nothing read yet.
Init ==
    /\ pc = "load"
    /\ head = <<>>
    /\ file \in Files
    /\ rd = <<>>
    /\ stdin = <<>>
    /\ last = NoOp

\* loadTasks: fopen(FILENAME, "r") fails, the list stays empty.
LoadNoFile ==
    /\ pc = "load"
    /\ ~file.exists
    /\ pc' = "menu"
    /\ last' = Did("load", 0, <<>>, "NoFile")
    /\ UNCHANGED <<head, file, rd, stdin>>

\* loadTasks: the file is open for reading.
LoadOpen ==
    /\ pc = "load"
    /\ file.exists
    /\ pc' = "loadLoop"
    /\ rd' = file.data
    /\ UNCHANGED <<head, file, stdin, last>>

\* One turn of the loop of loadTasks whose sscanf assigns both fields: the
\* description goes to addTask.  A description of MAX_TASK_LEN characters or
\* more is written past the end of the local array description; the turn then
\* goes on with `completed` as parsed or overwritten.
LoadLineAdd ==
    /\ pc = "loadLoop"
    /\ LET in == fgets(MAX_TASK_LEN + 10, rd)
           r  == sscanfLine(in.chunk)
       IN  /\ in.ok
           /\ r.n = 2
           /\ \E completed \in
                  IF Len(r.description) + 1 > MAX_TASK_LEN THEN {r.completed, 0, 1}
                                                           ELSE {r.completed} :
                  pc' = IF completed # 0 THEN "loadMark" ELSE "loadLoop"
           /\ head' = addTask(head, r.description)
           /\ rd' = in.rest
           /\ last' = Did("loadAdd", 0, r.description, "Added")
    /\ UNCHANGED <<file, stdin>>

\* The same turn when the write past the end of description ends the process
\* (stack protector, fault).
LoadLineSmash ==
    /\ pc = "loadLoop"
    /\ LET in == fgets(MAX_TASK_LEN + 10, rd)
           r  == sscanfLine(in.chunk)
       IN  /\ in.ok
           /\ r.n = 2
           /\ Len(r.description) + 1 > MAX_TASK_LEN
           /\ last' = Did("loadAdd", 0, r.description, "Smashed")
    /\ pc' = "crashed"
    /\ UNCHANGED <<head, file, rd, stdin>>

\* One turn of the loop whose sscanf does not assign both fields.
LoadLineSkip ==
    /\ pc = "loadLoop"
    /\ LET in == fgets(MAX_TASK_LEN + 10, rd)
           r  == sscanfLine(in.chunk)
       IN  /\ in.ok
           /\ r.n # 2
           /\ rd' = in.rest
           /\ last' = Did("loadSkip", 0, in.chunk, "Skipped")
    /\ UNCHANGED <<pc, head, file, stdin>>

\* if (completed): the node addTask just linked is marked.
LoadMark ==
    /\ pc = "loadMark"
    /\ head' = [head EXCEPT ![Len(head)].completed = 1]
    /\ pc' = "loadLoop"
    /\ UNCHANGED <<file, rd, stdin, last>>

\* fgets returns NULL: fclose, back in main.
LoadClose ==
    /\ pc = "loadLoop"
    /\ ~fgets(MAX_TASK_LEN + 10, rd).ok
    /\ pc' = "menu"
    /\ last' = Did("load", 0, <<>>, "Loaded")
    /\ UNCHANGED <<head, file, rd, stdin>>

\* The lines a read from stdin may see: what an earlier read left behind, or
\* else a line the user types now.
Typed(lines) == IF stdin # <<>> THEN {stdin} ELSE lines

\* fgets(inputBuffer, ...); sscanf(inputBuffer, "%d", &choice) at the menu.
Choice(line) == sscanfInt(fgets(MAX_TASK_LEN, line).chunk)

\* sscanf(...) != 1: "Invalid input".
MenuInvalid ==
    /\ pc = "menu"
    /\ \E line \in Typed(ChoiceLines) :
           /\ Choice(line).n # 1
           /\ stdin' = fgets(MAX_TASK_LEN, line).rest
    /\ last' = Did("invalid", 0, <<>>, "InvalidInput")
    /\ UNCHANGED <<pc, head, file, rd>>

\* default: "Invalid choice".
MenuDefault ==
    /\ pc = "menu"
    /\ \E line \in Typed(ChoiceLines) :
           /\ Choice(line).n = 1
           /\ Choice(line).val \notin 1..5
           /\ stdin' = fgets(MAX_TASK_LEN, line).rest
    /\ last' = Did("invalid", 0, <<>>, "InvalidChoice")
    /\ UNCHANGED <<pc, head, file, rd>>

\* case 1, 3, 4: the prompt for the argument.
MenuPrompt(choice, next) ==
    /\ pc = "menu"
    /\ \E line \in Typed(ChoiceLines) :
           /\ Choice(line).n = 1
           /\ Choice(line).val = choice
           /\ stdin' = fgets(MAX_TASK_LEN, line).rest
    /\ pc' = next
    /\ last' = NoOp
    /\ UNCHANGED <<head, file, rd>>

MenuAdd == Len(head) < MaxTasks /\ MenuPrompt(1, "readDesc")

MenuMark == MenuPrompt(3, "readMark")

MenuDelete == MenuPrompt(4, "readDel")

\* case 2: displayTasks(head).
MenuList ==
    /\ pc = "menu"
    /\ \E line \in Typed(ChoiceLines) :
           /\ Choice(line).n = 1
           /\ Choice(line).val = 2
           /\ stdin' = fgets(MAX_TASK_LEN, line).rest
    /\ last' = Did("list", 0, <<>>, displayTasks(head))
    /\ UNCHANGED <<pc, head, file, rd>>

\* case 5: saveTasks(head); freeList(head); return 0.
MenuSaveQuit ==
    /\ pc = "menu"
    /\ \E line \in Typed(ChoiceLines) :
           /\ Choice(line).n = 1
           /\ Choice(line).val = 5
           /\ stdin' = fgets(MAX_TASK_LEN, line).rest
    /\ \E canOpen \in BOOLEAN :
           LET s == saveTasks(head, file, canOpen)
           IN  /\ file' = s.file
               /\ last' = Did("save", 0, <<>>, s.out)
    /\ head' = freeList(head)
    /\ pc' = "exited"
    /\ UNCHANGED rd

\* case 1: fgets(taskDescription, ...), the newline cut off, addTask.
AddDesc ==
    /\ pc = "readDesc"
    /\ \E line \in Typed(DescLines) :
           LET in == fgets(MAX_TASK_LEN, line)
               taskDescription == Take(in.chunk, strcspn(in.chunk))
           IN  /\ head' = addTask(head, taskDescription)
               /\ stdin' = in.rest
               /\ last' = Did("add", 0, taskDescription, "Added")
    /\ pc' = "menu"
    /\ UNCHANGED <<file, rd>>

\* case 3 and 4 when sscanf finds no number: "Invalid number".
IndexInvalid ==
    /\ pc \in {"readMark", "readDel"}
    /\ \E line \in Typed(IndexLines) :
           /\ Choice(line).n # 1
           /\ stdin' = fgets(MAX_TASK_LEN, line).rest
    /\ last' = Did("invalid", 0, <<>>, "InvalidNumber")
    /\ pc' = "menu"
    /\ UNCHANGED <<head, file, rd>>

\* An operation that reads through a null pointer ends the process.
After(out) == IF out = "Segfault" THEN "crashed" ELSE "menu"

\* case 3: markComplete(head, taskIndex).
MarkIndex ==
    /\ pc = "readMark"
    /\ \E line \in Typed(IndexLines) :
           /\ Choice(line).n = 1
           /\ stdin' = fgets(MAX_TASK_LEN, line).rest
           /\ LET m == markComplete(head, Choice(line).val)
              IN  /\ head' = m.head
                  /\ last' = Did("mark", Choice(line).val, <<>>, m.out)
                  /\ pc' = After(m.out)
    /\ UNCHANGED <<file, rd>>

\* case 4: deleteTask(&head, taskIndex).
DeleteIndex ==
    /\ pc = "readDel"
    /\ \E line \in Typed(IndexLines) :
           /\ Choice(line).n = 1
           /\ stdin' = fgets(MAX_TASK_LEN, line).rest
           /\ LET d == deleteTask(head, Choice(line).val)
              IN  /\ head' = d.head
                  /\ last' = Did("delete", Choice(line).val, <<>>, d.out)
                  /\ pc' = After(d.out)
    /\ UNCHANGED <<file, rd>>

Next ==
    \/ LoadNoFile \/ LoadOpen \/ LoadLineAdd \/ LoadLineSmash \/ LoadLineSkip
    \/ LoadMark \/ LoadClose
    \/ MenuInvalid \/ MenuDefault \/ MenuAdd \/ MenuMark \/ MenuDelete
    \/ MenuList \/ MenuSaveQuit
    \/ AddDesc \/ IndexInvalid \/ MarkIndex \/ DeleteIndex

Spec == Init /\ [][Next]_vars

TypeOK ==
    /\ pc \in {"load", "loadLoop", "loadMark", "menu", "readDesc", "readMark",
               "readDel", "exited", "crashed"}
    /\ \A i \in 1..Len(head) : head[i].completed \in {0, 1}

\* ------------------------------------------------------------ properties

Task(description, completed) == [description |-> description, completed |-> completed]

\* C1: for every task sequence built from the empty store by add, mark
\* complete and delete, saving it and loading the saved file into an empty
\* store gives back the same sequence of (description, completed) pairs.
C1_RoundTrip ==
    (pc = "menu" /\ ~file.exists) => loadedFrom(<<>>, fileText(head)) = head

\* C2: markComplete(index) with index < 1 or index > length reports NotFound
\* and leaves the sequence unchanged.
C2_MarkOutOfRange ==
    [][(pc = "readMark" /\ last'.op = "mark"
          /\ (last'.index < 1 \/ last'.index > Len(head)))
        => (head' = head /\ last'.out = "NotFound")]_vars

\* C3: delete(index) with index < 1 or index > length reports an error and
\* removes no task.
C3_DeleteOutOfRange ==
    [][(pc = "readDel" /\ last'.op = "delete"
          /\ (last'.index < 1 \/ last'.index > Len(head)))
        => (head' = head /\ last'.out \in {"NotFound", "Empty"})]_vars

\* C4: delete(i) with 1 <= i <= length removes exactly the task at position
\* i: the length drops by one, the tasks before i stay in place and the tasks
\* after i move down by one, each unchanged.
C4_DeleteValid ==
    [][(pc = "readDel" /\ last'.op = "delete" /\ last'.index \in 1..Len(head))
        => /\ last'.out = "Deleted"
           /\ Len(head') = Len(head) - 1
           /\ \A j \in 1..Len(head) :
                  /\ j < last'.index => head'[j] = head[j]
                  /\ j > last'.index => head'[j - 1] = head[j]]_vars

\* The spec's example: the first of two tasks deleted, the second, completed,
\* is the only one left.
C4_Witness ==
    /\ last.op = "delete" /\ last.index = 1 /\ last.out = "Deleted"
    /\ head = <<Task(<<"a">>, 1)>>

\* C5: add(d) grows the sequence by exactly one; the new task is last, not
\* completed, its description d cut to MAX_TASK_LEN - 1 characters; every
\* earlier task keeps its position and content.
C5_AddAppends ==
    [][(pc \in {"readDesc", "loadLoop"} /\ last'.op \in {"add", "loadAdd"}
          /\ last'.out = "Added")
        => /\ Len(head') = Len(head) + 1
           /\ head'[Len(head')] = Task(Take(last'.desc, MAX_TASK_LEN - 1), 0)
           /\ \A j \in 1..Len(head) : head'[j] = head[j]]_vars

\* A task of the greatest length added from the menu behind a completed one.
C5_Witness ==
    /\ last.op = "add" /\ pc = "menu"
    /\ Len(head) = 2
    /\ head[1].completed = 1
    /\ head[2] = Task(Rep("a", MAX_TASK_LEN - 1), 0)

\* The lines of a text: the runs between newlines.
RECURSIVE linesOf(_)
linesOf(text) ==
    IF text = <<>> THEN <<>>
    ELSE <<Take(text, strcspn(text))>> \o linesOf(Drop(text, strcspn(text) + 1))

wellFormed(line) == Len(line) >= 3 /\ line[1] \in {"0", "1"} /\ line[2] = ","

RECURSIVE tasksByFormat(_)
tasksByFormat(ls) ==
    IF ls = <<>> THEN <<>>
    ELSE (IF wellFormed(Head(ls))
          THEN <<Task(SubSeq(Head(ls), 3, Len(Head(ls))),
                      IF Head(ls)[1] = "1" THEN 1 ELSE 0)>>
          ELSE <<>>) \o tasksByFormat(Tail(ls))

\* C6: load builds exactly one task for each line of the form <0|1>,<text>,
\* in file order, completed from the digit and description the text after
\* the comma; every other line adds no task.
C6_LoadByFormat ==
    (pc = "menu" /\ last.op = "load" /\ last.out = "Loaded")
        => head = tasksByFormat(linesOf(file.data))

\* C7: when markComplete or delete reports NotFound, or save cannot open the
\* file, the program goes back to the menu with its tasks intact.
C7_Recoverable ==
    [][(pc \in {"readMark", "readDel", "menu"}
          /\ last'.op \in {"mark", "delete", "save"}
          /\ last'.out \in {"NotFound", "IOError"})
        => (head' = head /\ pc' = "menu")]_vars

\* C8: every task in the store has a description of at most MAX_TASK_LEN - 1
\* characters with no newline in it.
C8_DescriptionBounded ==
    \A i \in 1..Len(head) :
        /\ Len(head[i].description) <= MAX_TASK_LEN - 1
        /\ \A k \in 1..Len(head[i].description) : head[i].description[k] # "\n"

\* After a load from a file, a description of the greatest length typed at
\* the menu is in the store.
C8_Witness ==
    /\ pc = "menu" /\ file.exists /\ last.op = "add"
    /\ Len(last.desc) = MAX_TASK_LEN - 1
    /\ head[Len(head)].description = last.desc

\* C9: on an empty store, markComplete(i) and delete(i) report an error for
\* every i, read through no missing task, and leave the store empty.
C9_EmptyStore ==
    [][(pc \in {"readMark", "readDel"} /\ head = <<>>
          /\ last'.op \in {"mark", "delete"})
        => (head' = <<>> /\ last'.out \in {"NotFound", "Empty"} /\ pc' = "menu")]_vars

\* delete(1) on the empty store has reported the empty list.
C9_Witness ==
    /\ head = <<>> /\ pc = "menu"
    /\ last.op = "delete" /\ last.index = 1 /\ last.out = "Empty"

\* C10: the description sscanf parses out of a line chunk during load fits,
\* with its terminator, in the MAX_TASK_LEN bytes of the local array.
C10_ParsedFits ==
    last.op = "loadAdd" => Len(last.desc) + 1 <= MAX_TASK_LEN

====
